---- MODULE Spec2Model ----
(***************************************************************************)
(* A model of progman.py: the catalog of program groups and items          *)
(* (ProgramItem, ProgramGroup, AppModel), its JSON persistence             *)
(* (AppModel.load / save / _load_default), the launcher (Launcher.launch)  *)
(* and the window handlers that mutate the catalog (ProgramItemDialog,     *)
(* GroupWindow, MainWindow).                                               *)
(*                                                                         *)
(* Python strings are sequences of one-character strings, so that          *)
(* str.strip() and str.lower() are computed.  A Python value that can come *)
(* out of json.load is a tagged record [t, v]: the model keeps the tag     *)
(* because load stores whatever value the file holds.  Object identity     *)
(* (the "is" of the deletions) is an id: the index of a group in the heap  *)
(* groupObjs, the id field of an item.                                     *)
(*                                                                         *)
(* The file system is taken to work: open/mkdir/write do not fail.         *)
(***************************************************************************)
EXTENDS Integers, Sequences, FiniteSets, TLC

VARIABLES
    platform,      \* sys.platform, fixed for a run
    file,          \* what is at config_path on disk
    pc,            \* "start" | "model" | "running" | "closed" | "crashed"
    theme,         \* AppModel.theme
    layout_state,  \* AppModel.layout_state
    groups,        \* AppModel.groups: the sequence of group references
    groupObjs,     \* the ProgramGroup objects ever created, by reference
    subWindows,    \* the MDI area's subwindows, each with its GroupWindow
    nextItem,      \* the number of ProgramItem objects created so far
    events,        \* the number of events the window has handled
    mdiState,      \* whether the binding's QMdiArea has saveState/restoreState
    last           \* the last operation: its outcome, message box, Popen call

vars == <<platform, file, pc, theme, layout_state, groups, groupObjs,
          subWindows, nextItem, events, mdiState, last>>

(***************************************************************************)
(* Bound of the model: the events (menu actions, context-menu actions,     *)
(* double clicks, the close request) one run of the program handles.       *)
(***************************************************************************)
MaxEvents == 3

(***************************************************************************)
(* Python strings.                                                         *)
(***************************************************************************)
Whitespace == {" ", "\t", "\n"}

RECURSIVE LStrip(_)
LStrip(s) ==
    IF s # <<>> /\ Head(s) \in Whitespace THEN LStrip(Tail(s)) ELSE s

RECURSIVE RStrip(_)
RStrip(s) ==
    IF s # <<>> /\ s[Len(s)] \in Whitespace
    THEN RStrip(SubSeq(s, 1, Len(s) - 1))
    ELSE s

\* str.strip()
Strip(s) == RStrip(LStrip(s))

UpperCase == <<"A", "B", "C", "D", "E", "F", "G", "H", "I", "J", "K", "L", "M",
               "N", "O", "P", "Q", "R", "S", "T", "U", "V", "W", "X", "Y", "Z">>
LowerCase == <<"a", "b", "c", "d", "e", "f", "g", "h", "i", "j", "k", "l", "m",
               "n", "o", "p", "q", "r", "s", "t", "u", "v", "w", "x", "y", "z">>

LowerChar(c) ==
    IF \E k \in 1..Len(UpperCase) : UpperCase[k] = c
    THEN LowerCase[CHOOSE k \in 1..Len(UpperCase) : UpperCase[k] = c]
    ELSE c

\* str.lower()
Lower(s) == [k \in 1..Len(s) |-> LowerChar(s[k])]

SYSTEM == <<"s", "y", "s", "t", "e", "m">>
CLASSIC == <<"c", "l", "a", "s", "s", "i", "c">>
MAIN == <<"M", "a", "i", "n">>
NOTEPAD == <<"N", "o", "t", "e", "p", "a", "d">>
NOTEPAD_EXE == <<"n", "o", "t", "e", "p", "a", "d", ".", "e", "x", "e">>
TERMINAL == <<"T", "e", "r", "m", "i", "n", "a", "l">>
XTERM == <<"x", "t", "e", "r", "m">>

(***************************************************************************)
(* Python values as json.load produces them and json.dump accepts them.    *)
(***************************************************************************)
Str(s) == [t |-> "str", v |-> s]
Num(n) == [t |-> "num", v |-> n]
Null == [t |-> "null", v |-> <<>>]
Arr(s) == [t |-> "arr", v |-> s]
Obj(f) == [t |-> "obj", v |-> f]

EmptyStr == Str(<<>>)

\* dict.get(key, default); only a dict has it
Get(data, key, default) ==
    IF key \in DOMAIN data.v THEN data.v[key] ELSE default

\* "not value"
Falsy(value) ==
    CASE value.t = "str" -> value.v = <<>>
      [] value.t = "num" -> value.v = 0
      [] value.t = "null" -> TRUE
      [] value.t = "arr" -> value.v = <<>>
      [] value.t = "obj" -> DOMAIN value.v = {}

RECURSIVE KeySeq(_)
KeySeq(keys) ==
    IF keys = {} THEN <<>>
    ELSE LET k == CHOOSE x \in keys : TRUE
         IN <<Str(<<k>>)>> \o KeySeq(keys \ {k})

\* "for x in value": a list gives its elements, a str its characters, a dict
\* its keys; anything else is not iterable (TypeError)
Iterable(value) == value.t \in {"arr", "str", "obj"}

Iter(value) ==
    CASE value.t = "arr" -> value.v
      [] value.t = "str" -> [k \in 1..Len(value.v) |-> Str(<<value.v[k]>>)]
      [] value.t = "obj" -> KeySeq(DOMAIN value.v)
      [] OTHER -> <<>>

(***************************************************************************)
(* ProgramItem and ProgramGroup.  An item value is the four fields; an     *)
(* item object is the four fields and its identity.                        *)
(***************************************************************************)
ProgramItem(title, command, working_dir, icon_path) ==
    [title |-> title, command |-> command,
     working_dir |-> working_dir, icon_path |-> icon_path]

ItemValue(item) ==
    ProgramItem(item.title, item.command, item.working_dir, item.icon_path)

ItemObject(id, value) ==
    [id |-> id, title |-> value.title, command |-> value.command,
     working_dir |-> value.working_dir, icon_path |-> value.icon_path]

\* ProgramItem.from_dict raises AttributeError when data has no .get
ItemFromDictRaises(data) == data.t # "obj"

\* from_dict reading the working directory under another key
ItemFromDictWrongKey(data) ==
    ProgramItem(Get(data, "title", EmptyStr),
                Get(data, "command", EmptyStr),
                Get(data, "workdir", EmptyStr),
                Get(data, "icon_path", EmptyStr))

ItemFromDict(data) ==
    ProgramItem(Get(data, "title", EmptyStr),
                Get(data, "command", EmptyStr),
                Get(data, "working_dir", EmptyStr),
                Get(data, "icon_path", EmptyStr))

\* ProgramItem.to_dict: dataclasses.asdict
ItemToDict(item) ==
    Obj([title |-> item.title, command |-> item.command,
         working_dir |-> item.working_dir, icon_path |-> item.icon_path])

GroupFromDictRaises(data) ==
    \/ data.t # "obj"
    \/ LET items_data == Get(data, "items", Arr(<<>>))
       IN \/ ~Iterable(items_data)
          \/ \E k \in DOMAIN Iter(items_data) :
                 ItemFromDictRaises(Iter(items_data)[k])

\* ProgramGroup.from_dict, as a group value: a title and item values
GroupFromDict(data) ==
    LET items_data == Iter(Get(data, "items", Arr(<<>>)))
    IN [title |-> Get(data, "title", EmptyStr),
        items |-> [k \in DOMAIN items_data |-> ItemFromDict(items_data[k])]]

GroupToDict(group) ==
    Obj([title |-> group.title,
         items |-> Arr([k \in DOMAIN group.items |-> ItemToDict(group.items[k])])])

GroupValue(group) ==
    [title |-> group.title,
     items |-> [k \in DOMAIN group.items |-> ItemValue(group.items[k])]]

(***************************************************************************)
(* The file at config_path and the json module.                            *)
(***************************************************************************)
NoFile == [exists |-> FALSE]
TextFile(text) == [exists |-> TRUE, text |-> text]

\* json.dump(data, f, indent=2): the text that denotes data
JsonDump(data) == [syntax |-> "json", value |-> data]
\* a text that is no JSON document
NotJson(what) == [syntax |-> "invalid", value |-> Str(what)]

JsonLoadRaises(text) == text.syntax # "json"
JsonLoad(text) == text.value

(***************************************************************************)
(* AppModel._load_default, AppModel.save and AppModel.load on values:      *)
(* a catalog value is [theme, layout_state, groups].                       *)
(***************************************************************************)
DefaultItem(plat) ==
    IF plat = "win32"
    THEN ProgramItem(Str(NOTEPAD), Str(NOTEPAD_EXE), EmptyStr, EmptyStr)
    ELSE ProgramItem(Str(TERMINAL), Str(XTERM), EmptyStr, EmptyStr)

\* the groups _load_default assigns
DefaultGroups(plat) == <<[title |-> Str(MAIN), items |-> <<DefaultItem(plat)>>]>>

\* the data save() serializes
SaveData(th, layout, grps) ==
    Obj([theme |-> th,
         layout_state |-> layout,
         groups |-> Arr([k \in DOMAIN grps |-> GroupToDict(grps[k])])])

SavedFile(th, layout, grps) == TextFile(JsonDump(SaveData(th, layout, grps)))

\* the part of load() after the try block, which runs outside it
ParsedRaises(data) ==
    \/ data.t # "obj"
    \/ LET groups_data == Get(data, "groups", Arr(<<>>))
       IN \/ ~Iterable(groups_data)
          \/ \E k \in DOMAIN Iter(groups_data) :
                 GroupFromDictRaises(Iter(groups_data)[k])

LoadedTheme(data) ==
    LET th == Get(data, "theme", Str(SYSTEM))
    IN IF th \notin {Str(SYSTEM), Str(CLASSIC)} THEN Str(SYSTEM) ELSE th

ParsedCatalog(data) ==
    LET groups_data == Iter(Get(data, "groups", Arr(<<>>)))
    IN [theme |-> LoadedTheme(data),
        layout_state |-> Get(data, "layout_state", EmptyStr),
        groups |-> [k \in DOMAIN groups_data |-> GroupFromDict(groups_data[k])]]

\* what __init__ sets before load(), with the groups of _load_default
DefaultCatalog(plat) ==
    [theme |-> Str(SYSTEM), layout_state |-> EmptyStr,
     groups |-> DefaultGroups(plat)]

\* load() that forgets to save the default it made for a missing file
LoadWithoutSave(f, plat) ==
    IF ~f.exists
    THEN [outcome |-> "created", catalog |-> DefaultCatalog(plat), file |-> f]
    ELSE IF JsonLoadRaises(f.text)
    THEN [outcome |-> "fallback", catalog |-> DefaultCatalog(plat), file |-> f]
    ELSE IF ParsedRaises(JsonLoad(f.text))
    THEN [outcome |-> "raised",
          catalog |-> [theme |-> Str(SYSTEM), layout_state |-> EmptyStr,
                       groups |-> <<>>],
          file |-> f]
    ELSE [outcome |-> "parsed", catalog |-> ParsedCatalog(JsonLoad(f.text)),
          file |-> f]

\* load() that saves the default over an unreadable file as well
LoadOverwriting(f, plat) ==
    IF ~f.exists \/ JsonLoadRaises(f.text)
    THEN [outcome |-> IF f.exists THEN "fallback" ELSE "created",
          catalog |-> DefaultCatalog(plat),
          file |-> SavedFile(Str(SYSTEM), EmptyStr, DefaultGroups(plat))]
    ELSE IF ParsedRaises(JsonLoad(f.text))
    THEN [outcome |-> "raised",
          catalog |-> [theme |-> Str(SYSTEM), layout_state |-> EmptyStr,
                       groups |-> <<>>],
          file |-> f]
    ELSE [outcome |-> "parsed", catalog |-> ParsedCatalog(JsonLoad(f.text)),
          file |-> f]

\* AppModel(config_path): __init__ and load() on file f.  outcome is
\* "created" (no file: default, saved), "fallback" (unreadable: default, file
\* kept), "parsed", or "raised" (an exception leaves load and __init__)
Load(f, plat) ==
    IF ~f.exists
    THEN [outcome |-> "created", catalog |-> DefaultCatalog(plat),
          file |-> SavedFile(Str(SYSTEM), EmptyStr, DefaultGroups(plat))]
    ELSE IF JsonLoadRaises(f.text)
    THEN [outcome |-> "fallback", catalog |-> DefaultCatalog(plat), file |-> f]
    ELSE IF ParsedRaises(JsonLoad(f.text))
    THEN [outcome |-> "raised",
          catalog |-> [theme |-> Str(SYSTEM), layout_state |-> EmptyStr,
                       groups |-> <<>>],
          file |-> f]
    ELSE [outcome |-> "parsed", catalog |-> ParsedCatalog(JsonLoad(f.text)),
          file |-> f]

(***************************************************************************)
(* The running program: AppModel's fields, the heap of groups, the MDI     *)
(* subwindows.                                                             *)
(***************************************************************************)
NoBox == [kind |-> "none"]
NoCall == [called |-> FALSE]

Done(op, outcome) ==
    [op |-> op, outcome |-> outcome, box |-> NoBox, popen |-> NoCall]

RECURSIVE ItemsBefore(_, _)
\* the number of items in the groups before the k-th
ItemsBefore(grps, k) ==
    IF k <= 1 THEN 0
    ELSE ItemsBefore(grps, k - 1) + Len(grps[k - 1].items)

\* the objects that load or _load_default constructs for group values:
\* every group and every item is a new object
NewObjects(grps) ==
    [k \in DOMAIN grps |->
        [title |-> grps[k].title,
         items |-> [j \in DOMAIN grps[k].items |->
                       ItemObject(ItemsBefore(grps, k) + j, grps[k].items[j])]]]

\* model.groups as objects: the group each reference stands for
GroupList == [k \in DOMAIN groups |-> groupObjs[groups[k]]]

\* the catalog in memory, as a value
CatalogValue ==
    [theme |-> theme, layout_state |-> layout_state,
     groups |-> [k \in DOMAIN groups |-> GroupValue(groupObjs[groups[k]])]]

ItemIds(items) == [k \in DOMAIN items |-> items[k].id]

\* GroupWindow.refresh_items: one list entry per item of the group, each
\* holding the item's reference
RefreshItems(sub, objs) ==
    [sub EXCEPT !.listItems = ItemIds(objs[sub.group].items)]

\* MainWindow._add_group_window: a GroupWindow (which refreshes its list) in
\* a new subwindow, shown
AddGroupWindow(gid, objs) ==
    RefreshItems([group |-> gid, listItems |-> <<>>, closed |-> FALSE], objs)

A == <<"a">>
B == <<"b">>
X == <<"x">>
W == <<"w">>
G == <<"G">>
H == <<"H">>
PNG == <<"i", ".", "p", "n", "g">>
BLOB == <<"Q", "Q", "=", "=">>

\* the files the program is started on
InitialFiles ==
    { NoFile,
      TextFile(NotJson(<<"{">>)),
      TextFile(NotJson(<<>>)),
      TextFile(JsonDump(Arr(<<>>))),
      TextFile(JsonDump(Obj(<<>>))),
      TextFile(JsonDump(Obj(
          [theme |-> Str(CLASSIC),
           layout_state |-> Str(BLOB),
           version |-> Num(1),
           groups |-> Arr(<<Obj(
               [title |-> Str(G),
                items |-> Arr(<<Obj([title |-> Str(A), command |-> Str(X)]),
                                Obj([title |-> Str(A), command |-> Str(X)])>>)])>>)]))),
      TextFile(JsonDump(Obj(
          [theme |-> Str(<<"d", "a", "r", "k">>),
           groups |-> Arr(<<Obj(
               [title |-> Str(H),
                items |-> Arr(<<Obj([title |-> Str(B),
                                     icon_path |-> Str(PNG)])>>)])>>)]))),
      TextFile(JsonDump(Obj([groups |-> Null]))),
      TextFile(JsonDump(Obj([groups |-> Obj(<<>>)]))),
      TextFile(JsonDump(Obj([groups |-> Arr(<<Num(5)>>)]))),
      TextFile(JsonDump(Obj(
          [groups |-> Arr(<<Obj([items |-> Str(X)])>>)]))) }

Platforms == {"win32", "linux"}

Init ==
    /\ platform \in Platforms
    /\ mdiState \in BOOLEAN
    /\ file \in InitialFiles
    /\ pc = "start"
    /\ theme = Str(SYSTEM)
    /\ layout_state = EmptyStr
    /\ groups = <<>>
    /\ groupObjs = <<>>
    /\ subWindows = <<>>
    /\ nextItem = 0
    /\ events = 0
    /\ last = Done("none", "none")

\* main(): model = AppModel(), that is __init__ and load().  An exception
\* that leaves load() leaves main(): the process ends with a traceback.
AppModelInit ==
    /\ pc = "start"
    /\ LET r == Load(file, platform)
       IN /\ pc' = IF r.outcome = "raised" THEN "crashed" ELSE "model"
          /\ file' = r.file
          /\ theme' = r.catalog.theme
          /\ layout_state' = r.catalog.layout_state
          /\ groupObjs' = NewObjects(r.catalog.groups)
          /\ groups' = [k \in DOMAIN r.catalog.groups |-> k]
          /\ nextItem' = ItemsBefore(r.catalog.groups,
                                     Len(r.catalog.groups) + 1)
          /\ last' = Done("load", r.outcome)
    /\ UNCHANGED <<platform, mdiState, subWindows, events>>

\* self.mdi.saveState() and self.mdi.restoreState(state): the calls return
\* when the QMdiArea of the binding has these methods and raise
\* AttributeError when it has not (Qt documents them for QMainWindow and
\* QSplitter, not for QMdiArea)
MdiStateRaises == ~mdiState

\* MainWindow._restore_layout: nothing for an empty layout_state, else the
\* state decoded from it (not empty for the texts here) goes to restoreState
RestoreLayoutRaises == ~Falsy(layout_state) /\ MdiStateRaises

\* main(): window = MainWindow(model): _load_groups opens a subwindow for
\* every group of the model, _restore_layout restores the stored layout.
\* An exception that leaves __init__ leaves main().
MainWindowInit ==
    /\ pc = "model"
    /\ pc' = IF RestoreLayoutRaises THEN "crashed" ELSE "running"
    /\ subWindows' = [k \in DOMAIN groups |-> AddGroupWindow(groups[k], groupObjs)]
    /\ last' = Done("window", IF RestoreLayoutRaises THEN "raised" ELSE "shown")
    /\ UNCHANGED <<platform, mdiState, file, theme, layout_state, groups, groupObjs,
                   nextItem, events>>

\* the event loop hands the window one more event
Event ==
    /\ pc = "running"
    /\ events < MaxEvents
    /\ events' = events + 1

(***************************************************************************)
(* Saving.                                                                 *)
(***************************************************************************)
\* what MainWindow._capture_layout stores: "" for an empty state, else the
\* base64 text of the state, which the window system decides
LayoutTexts == {EmptyStr, Str(BLOB)}

\* MainWindow._save: _capture_layout stores the layout, model.save writes
\* the model, whose theme is th, to the file.  When saveState raises,
\* _capture_layout and _save end there: nothing is stored or written.
SaveHandler(th, layout) ==
    IF MdiStateRaises
    THEN UNCHANGED <<layout_state, file>>
    ELSE /\ layout_state' = layout
         /\ file' = SavedFile(th, layout, GroupList)

\* how a handler that calls _save ends
SaveOutcome == IF MdiStateRaises THEN "raised" ELSE "saved"

\* an exception that leaves a handler the event loop called ends the
\* process (PyQt aborts on an unhandled exception)
AfterSave(then) == IF MdiStateRaises THEN "crashed" ELSE then

\* File > Save
Save(layout) ==
    /\ Event
    /\ SaveHandler(theme, layout)
    /\ pc' = AfterSave(pc)
    /\ last' = Done("save", SaveOutcome)
    /\ UNCHANGED <<platform, mdiState, theme, groups, groupObjs, subWindows, nextItem>>

\* MainWindow.closeEvent: save, then the window closes
CloseEvent(layout) ==
    /\ Event
    /\ SaveHandler(theme, layout)
    /\ pc' = AfterSave("closed")
    /\ last' = Done("close", SaveOutcome)
    /\ UNCHANGED <<platform, mdiState, theme, groups, groupObjs, subWindows, nextItem>>

\* _set_theme that lowercases its argument and does not coerce it
ThemeValueNoCoercion(th) ==
    Lower(IF th = <<>> THEN SYSTEM ELSE th)

\* the value _set_theme stores for its argument
ThemeValue(th) ==
    LET lowered == Lower(IF th = <<>> THEN SYSTEM ELSE th)
    IN IF lowered \notin {SYSTEM, CLASSIC} THEN SYSTEM ELSE lowered

\* the arguments the two View > Colors actions pass
ThemeChoices == {SYSTEM, CLASSIC}

\* MainWindow._set_theme
SetTheme(th, layout) ==
    /\ Event
    /\ theme' = Str(ThemeValue(th))
    /\ SaveHandler(Str(ThemeValue(th)), layout)
    /\ pc' = AfterSave(pc)
    /\ last' = Done("set_theme", SaveOutcome)
    /\ UNCHANGED <<platform, mdiState, groups, groupObjs, subWindows, nextItem>>

(***************************************************************************)
(* Groups.  Which subwindow is the active one is the window system's       *)
(* answer (QMdiArea.activeSubWindow): None (0 here) or a subwindow that is *)
(* open.  The handlers ask again after their dialog, and the code provides *)
(* for None there (lines 755 and 778).                                     *)
(***************************************************************************)
SP == " "

\* what the user may type as a group name
GroupNames == {<<>>, <<SP>>, <<SP, "H", SP>>}

OpenSubWindows == {k \in DOMAIN subWindows : ~subWindows[k].closed}
ActiveSubWindows == {0} \cup OpenSubWindows

\* MainWindow._new_group
NewGroup(text, ok) ==
    /\ Event
    /\ IF ~ok \/ Strip(text) = <<>>
       THEN /\ last' = Done("new_group", "cancelled")
            /\ UNCHANGED <<groups, groupObjs, subWindows>>
       ELSE LET gid == Len(groupObjs) + 1
                objs == Append(groupObjs, [title |-> Str(Strip(text)),
                                           items |-> <<>>])
            IN /\ groupObjs' = objs
               /\ groups' = Append(groups, gid)
               /\ subWindows' = Append(subWindows, AddGroupWindow(gid, objs))
               /\ last' = Done("new_group", "added")
    /\ UNCHANGED <<platform, mdiState, file, pc, theme, layout_state, nextItem>>

\* MainWindow._rename_current_group (the subwindow's title is not modelled)
RenameCurrentGroup(sub, text, ok) ==
    /\ Event
    /\ IF sub = 0
       THEN last' = Done("rename_group", "no_window") /\ UNCHANGED groupObjs
       ELSE IF ~ok \/ Strip(text) = <<>>
       THEN last' = Done("rename_group", "cancelled") /\ UNCHANGED groupObjs
       ELSE /\ groupObjs' = [groupObjs EXCEPT
                               ![subWindows[sub].group].title = Str(Strip(text))]
            /\ last' = Done("rename_group", "renamed")
    /\ UNCHANGED <<platform, mdiState, file, pc, theme, layout_state, groups, subWindows,
                   nextItem>>

\* the filter with "!=" for "is not": dataclass equality, title and items
RemoveGroupByValue(grps, group) ==
    SelectSeq(grps, LAMBDA g : groupObjs[g] # groupObjs[group])

\* [g for g in self.model.groups if g is not group]
RemoveGroup(grps, group) == SelectSeq(grps, LAMBDA g : g # group)

\* MainWindow._delete_current_group; again is the active subwindow after the
\* question box: sub, or None.  The handler shows and returns nothing after
\* the filter; the outcome names what the filter did.
DeleteCurrentGroup(sub, yes, again) ==
    /\ Event
    /\ IF sub = 0
       THEN last' = Done("delete_group", "no_window")
            /\ UNCHANGED <<groups, subWindows>>
       ELSE IF ~yes
       THEN last' = Done("delete_group", "cancelled")
            /\ UNCHANGED <<groups, subWindows>>
       ELSE /\ groups' = RemoveGroup(groups, subWindows[sub].group)
            /\ subWindows' = IF again = 0 THEN subWindows
                             ELSE [subWindows EXCEPT ![again].closed = TRUE]
            /\ last' = Done("delete_group",
                            IF RemoveGroup(groups, subWindows[sub].group) = groups
                            THEN "nothing_removed" ELSE "deleted")
    /\ UNCHANGED <<platform, mdiState, file, pc, theme, layout_state, groupObjs, nextItem>>

(***************************************************************************)
(* Items.  A GroupWindow's handlers act on its own group; an entry of its  *)
(* list holds the reference of the item it shows.                          *)
(***************************************************************************)
\* what the user may leave in the four fields of the Program Item dialog
DialogInputs ==
    { ProgramItem(<<>>, X, <<>>, <<>>),
      ProgramItem(A, <<>>, W, <<>>),
      ProgramItem(<<SP>>, X, <<>>, <<>>),
      ProgramItem(<<SP, "a">>, <<"x", SP>>, <<SP, "w">>, <<>>),
      ProgramItem(A, X, W, <<>>) }

\* ProgramItemDialog.get_item: the four texts, stripped
DialogFields(input) ==
    ProgramItem(Str(Strip(input.title)), Str(Strip(input.command)),
                Str(Strip(input.working_dir)), Str(Strip(input.icon_path)))

\* the check without its second half
DialogInvalidTitleOnly(input) == Falsy(DialogFields(input).title)

\* ProgramItemDialog.get_item: "if not title or not command"
DialogInvalid(input) ==
    Falsy(DialogFields(input).title) \/ Falsy(DialogFields(input).command)

InvalidItemBox ==
    [kind |-> "warning", caption |-> "Invalid Item",
     text |-> "Title and Command are required."]

\* what get_item returns: "cancelled" and "invalid" stand for its two None
GetItem(accepted, input) ==
    IF ~accepted THEN Done("dialog", "cancelled")
    ELSE IF DialogInvalid(input)
    THEN [Done("dialog", "invalid") EXCEPT !.box = InvalidItemBox]
    ELSE Done("dialog", "item")

\* the item object a list entry refers to
ItemOf(sub, entry) ==
    LET items == groupObjs[subWindows[sub].group].items
    IN items[CHOOSE k \in DOMAIN items : items[k].id = subWindows[sub].listItems[entry]]

\* GroupWindow._new_program
NewProgram(sub, accepted, input) ==
    /\ Event
    /\ LET got == GetItem(accepted, input)
           gid == subWindows[sub].group
       IN IF got.outcome # "item"
          THEN /\ last' = [got EXCEPT !.op = "new_program"]
               /\ UNCHANGED <<groupObjs, subWindows, nextItem>>
          ELSE LET objs == [groupObjs EXCEPT ![gid].items =
                              Append(@, ItemObject(nextItem + 1, DialogFields(input)))]
               IN /\ groupObjs' = objs
                  /\ nextItem' = nextItem + 1
                  /\ subWindows' = [subWindows EXCEPT
                                      ![sub] = RefreshItems(@, objs)]
                  /\ last' = Done("new_program", "added")
    /\ UNCHANGED <<platform, mdiState, file, pc, theme, layout_state, groups>>

\* the assignments reaching every item equal to the edited one
EditedItemsByValue(items, id, fields) ==
    LET old == CHOOSE i \in {items[k] : k \in DOMAIN items} : i.id = id
    IN [k \in DOMAIN items |->
           IF ItemValue(items[k]) = ItemValue(old)
           THEN ItemObject(items[k].id, fields) ELSE items[k]]

\* get_item on an existing item: the four assignments to self._item
EditedItems(items, id, fields) ==
    [k \in DOMAIN items |->
        IF items[k].id = id THEN ItemObject(id, fields) ELSE items[k]]

\* GroupWindow._edit_program
EditProgram(sub, entry, accepted, input) ==
    /\ Event
    /\ LET got == GetItem(accepted, input)
           gid == subWindows[sub].group
       IN IF got.outcome # "item"
          THEN /\ last' = [got EXCEPT !.op = "edit_program"]
               /\ UNCHANGED <<groupObjs, subWindows>>
          ELSE LET objs == [groupObjs EXCEPT ![gid].items =
                              EditedItems(@, ItemOf(sub, entry).id,
                                          DialogFields(input))]
               IN /\ groupObjs' = objs
                  /\ subWindows' = [subWindows EXCEPT
                                      ![sub] = RefreshItems(@, objs)]
                  /\ last' = Done("edit_program", "edited")
    /\ UNCHANGED <<platform, mdiState, file, pc, theme, layout_state, groups, nextItem>>

\* the filter with "!=" for "is not": dataclass equality, the four fields
RemoveItemByValue(items, item) ==
    SelectSeq(items, LAMBDA i : ItemValue(i) # ItemValue(item))

\* a removal that fills the removed place with the last item
RemoveItemSwapping(items, item) ==
    LET k == CHOOSE j \in DOMAIN items : items[j].id = item.id
        n == Len(items)
    IN IF k = n THEN SubSeq(items, 1, n - 1)
       ELSE [j \in 1..(n - 1) |-> IF j = k THEN items[n] ELSE items[j]]

\* [i for i in self.group.items if i is not item]
RemoveItem(items, item) == SelectSeq(items, LAMBDA i : i.id # item.id)

\* GroupWindow._delete_program
DeleteProgram(sub, entry, yes) ==
    /\ Event
    /\ IF ~yes
       THEN /\ last' = Done("delete_program", "cancelled")
            /\ UNCHANGED <<groupObjs, subWindows>>
       ELSE LET gid == subWindows[sub].group
                objs == [groupObjs EXCEPT ![gid].items =
                            RemoveItem(@, ItemOf(sub, entry))]
            IN /\ groupObjs' = objs
               /\ subWindows' = [subWindows EXCEPT ![sub] = RefreshItems(@, objs)]
               /\ last' = Done("delete_program", "deleted")
    /\ UNCHANGED <<platform, mdiState, file, pc, theme, layout_state, groups, nextItem>>

(***************************************************************************)
(* Launcher.launch.  subprocess.Popen either starts the shell or raises.   *)
(***************************************************************************)
PopenResults ==
    { [ok |-> TRUE],
      [ok |-> FALSE, error |-> "[Errno 2] No such file or directory"] }

\* the Popen call of launch: the command, shell=True, cwd
PopenCall(item) ==
    [called |-> TRUE, args |-> item.command, shell |-> TRUE,
     cwd |-> IF Falsy(item.working_dir) THEN Null ELSE item.working_dir]

\* the message box without the exception's text
LaunchErrorBoxNoDetail(item, error) ==
    [kind |-> "critical", caption |-> "Launch Error",
     title |-> item.title, command |-> item.command, error |-> ""]

\* the message box of the except branch
LaunchErrorBox(item, error) ==
    [kind |-> "critical", caption |-> "Launch Error",
     title |-> item.title, command |-> item.command, error |-> error]

\* launch without its first two lines
LaunchResultUnguarded(item, popen) ==
    IF popen.ok
    THEN [Done("launch", "started") EXCEPT !.popen = PopenCall(item)]
    ELSE [Done("launch", "failed") EXCEPT
            !.popen = PopenCall(item),
            !.box = LaunchErrorBox(item, popen.error)]

\* Launcher.launch(item), with what Popen does when it is called
LaunchResult(item, popen) ==
    IF Falsy(item.command) THEN Done("launch", "skipped")
    ELSE IF popen.ok
    THEN [Done("launch", "started") EXCEPT !.popen = PopenCall(item)]
    ELSE [Done("launch", "failed") EXCEPT
            !.popen = PopenCall(item),
            !.box = LaunchErrorBox(item, popen.error)]

\* GroupWindow._on_item_double_clicked
Launch(sub, entry, popen) ==
    /\ Event
    /\ last' = LaunchResult(ItemOf(sub, entry), popen)
    /\ UNCHANGED <<platform, mdiState, file, pc, theme, layout_state, groups, groupObjs,
                   subWindows, nextItem>>

Entries(sub) == DOMAIN subWindows[sub].listItems

Next ==
    \/ AppModelInit
    \/ MainWindowInit
    \/ \E layout \in LayoutTexts : Save(layout)
    \/ \E layout \in LayoutTexts : CloseEvent(layout)
    \/ \E th \in ThemeChoices, layout \in LayoutTexts : SetTheme(th, layout)
    \/ \E text \in GroupNames, ok \in BOOLEAN : NewGroup(text, ok)
    \/ \E sub \in ActiveSubWindows, text \in GroupNames, ok \in BOOLEAN :
           RenameCurrentGroup(sub, text, ok)
    \/ \E sub \in ActiveSubWindows, yes \in BOOLEAN : \E again \in {0, sub} :
           DeleteCurrentGroup(sub, yes, again)
    \/ \E sub \in OpenSubWindows, accepted \in BOOLEAN, input \in DialogInputs :
           NewProgram(sub, accepted, input)
    \/ \E sub \in OpenSubWindows : \E entry \in Entries(sub),
          accepted \in BOOLEAN, input \in DialogInputs :
           EditProgram(sub, entry, accepted, input)
    \/ \E sub \in OpenSubWindows : \E entry \in Entries(sub), yes \in BOOLEAN :
           DeleteProgram(sub, entry, yes)
    \/ \E sub \in OpenSubWindows : \E entry \in Entries(sub),
          popen \in PopenResults :
           Launch(sub, entry, popen)

Spec == Init /\ [][Next]_vars

(***************************************************************************)
(* Persistence.                                                            *)
(***************************************************************************)
\* the handlers that end in AppModel.save, when they reach it
Saved == last.op \in {"save", "set_theme", "close"} /\ last.outcome = "saved"

\* what a new AppModel on the same path loads
Reloaded == Load(file, platform)

\* C1: whenever the catalog has just been saved, whatever groups, items and
\* theme the operations before have left in it, loading the file in a fresh
\* model succeeds and yields the same theme, layout_state and groups: the
\* same titles, the same items in the same order, with all four fields.
C1_RoundTrip ==
    Saved => /\ Reloaded.outcome = "parsed"
             /\ Reloaded.catalog.theme = theme
             /\ Reloaded.catalog.layout_state = layout_state
             /\ Reloaded.catalog.groups = CatalogValue.groups
             /\ Reloaded.file = file

\* a catalog grown from the default one (a second group, an item with a
\* working directory in it) has been saved
C1_Witness ==
    /\ last.op = "save"
    /\ last.outcome = "saved"
    /\ Len(groups) = 2
    /\ GroupList[1].title = Str(MAIN)
    /\ Len(GroupList[1].items) = 1
    /\ Len(GroupList[2].items) = 1
    /\ GroupList[2].items[1].working_dir = Str(W)

\* the catalog is the one _load_default makes: one group "Main" with one
\* item that has a title and a command and neither directory nor icon
IsDefaultCatalog ==
    /\ Len(groups) = 1
    /\ GroupList[1].title = Str(MAIN)
    /\ Len(GroupList[1].items) = 1
    /\ GroupList[1].items[1].title.t = "str"
    /\ GroupList[1].items[1].title.v # <<>>
    /\ GroupList[1].items[1].command.t = "str"
    /\ GroupList[1].items[1].command.v # <<>>
    /\ GroupList[1].items[1].working_dir = EmptyStr
    /\ GroupList[1].items[1].icon_path = EmptyStr

\* C2: load on a path that does not exist leaves the default catalog in
\* memory and a file on disk, and a second load of that file returns a
\* catalog equal to the first.
C2_DefaultSynthesis ==
    [][(AppModelInit /\ ~file.exists) =>
           (/\ pc = "model"
            /\ IsDefaultCatalog
            /\ file.exists
            /\ Reloaded.outcome = "parsed"
            /\ Reloaded.catalog = CatalogValue)']_vars

\* the program was started without a file and has loaded
C2_Witness ==
    /\ last.op = "load"
    /\ last.outcome = "created"
    /\ file.exists
    /\ IsDefaultCatalog

\* C3: load on a file whose text is not valid JSON leaves in memory the
\* catalog that load on a missing path produces (groups, theme,
\* layout_state) and leaves the file as it was.
C3_CorruptFallback ==
    [][(AppModelInit /\ file.exists /\ JsonLoadRaises(file.text)) =>
           /\ pc' = "model"
           /\ file' = file
           /\ CatalogValue' = Load(NoFile, platform).catalog
           /\ IsDefaultCatalog']_vars

\* the program was started on an unreadable file and has loaded
C3_Witness ==
    /\ last.op = "load"
    /\ last.outcome = "fallback"
    /\ file.exists
    /\ JsonLoadRaises(file.text)
    /\ IsDefaultCatalog

\* the shape the file format documents: an object whose "groups", when
\* present, is a list of objects whose "items", when present, is a list of
\* objects
WellShaped(data) ==
    /\ data.t = "obj"
    /\ LET gs == Get(data, "groups", Arr(<<>>))
       IN /\ gs.t = "arr"
          /\ \A k \in DOMAIN gs.v :
                /\ gs.v[k].t = "obj"
                /\ LET is == Get(gs.v[k], "items", Arr(<<>>))
                   IN /\ is.t = "arr"
                      /\ \A j \in DOMAIN is.v : is.v[j].t = "obj"

\* C4: load never raises for an existing file: malformed text and valid
\* JSON of the wrong shape both end in the default catalog.  (After a load
\* of an existing file the file is what it was before.)
C4_LoadNeverRaises ==
    (last.op = "load" /\ last.outcome # "created") =>
        /\ pc # "crashed"
        /\ (JsonLoadRaises(file.text) \/ ~WellShaped(JsonLoad(file.text)))
               => (last.outcome = "fallback" /\ IsDefaultCatalog)

(***************************************************************************)
(* Items.                                                                  *)
(***************************************************************************)
\* everything of the catalog but the group objects stays as it is
RestUnchanged ==
    UNCHANGED <<platform, mdiState, file, pc, theme, layout_state, groups>>

\* every group object but gid stays as it is, and gid keeps its title
OtherGroupsUnchanged(gid) ==
    /\ DOMAIN groupObjs' = DOMAIN groupObjs
    /\ \A g \in DOMAIN groupObjs : g # gid => groupObjs'[g] = groupObjs[g]
    /\ groupObjs'[gid].title = groupObjs[gid].title

\* the ids of the item objects held by any group
LiveItemIds ==
    UNION {{groupObjs[g].items[k].id : k \in DOMAIN groupObjs[g].items} :
              g \in DOMAIN groupObjs}

\* the step appends one new item object with the given fields to group gid
\* and changes nothing else
Appends(gid, fields) ==
    LET before == groupObjs[gid].items
        after == groupObjs'[gid].items
    IN /\ Len(after) = Len(before) + 1
       /\ SubSeq(after, 1, Len(before)) = before
       /\ ItemValue(after[Len(after)]) = fields
       /\ after[Len(after)].id \notin LiveItemIds
       /\ OtherGroupsUnchanged(gid)
       /\ RestUnchanged

\* the step reports InvalidItem and changes nothing of the catalog
RejectsInvalidItem ==
    /\ last'.box = InvalidItemBox
    /\ last'.outcome = "invalid"
    /\ groupObjs' = groupObjs
    /\ RestUnchanged

\* the dialog's four texts taken as they are
Verbatim(input) ==
    ProgramItem(Str(input.title), Str(input.command),
                Str(input.working_dir), Str(input.icon_path))

Blank(text) == Strip(text) = <<>>

\* C5 as stated: an empty title or command is rejected and the group's items
\* stay as they are; with both non-empty the item is appended at the end of
\* the group and nothing else changes.
C5_AddItemAsStated ==
    [][last'.op = "new_program" =>
       \A sub \in OpenSubWindows, input \in DialogInputs :
          NewProgram(sub, TRUE, input) =>
              IF input.title = <<>> \/ input.command = <<>>
              THEN RejectsInvalidItem
              ELSE Appends(subWindows[sub].group, Verbatim(input))]_vars

\* C5, amended: a title or command that is empty once surrounding whitespace
\* is stripped is rejected (InvalidItem) and the group's items stay as they
\* are; otherwise the item, its four fields stripped, is appended at the end
\* of the group and nothing else changes.
C5_AddItemValidation ==
    [][last'.op = "new_program" =>
       \A sub \in OpenSubWindows, input \in DialogInputs :
          NewProgram(sub, TRUE, input) =>
              IF Blank(input.title) \/ Blank(input.command)
              THEN RejectsInvalidItem
              ELSE Appends(subWindows[sub].group,
                           ProgramItem(Str(Strip(input.title)),
                                       Str(Strip(input.command)),
                                       Str(Strip(input.working_dir)),
                                       Str(Strip(input.icon_path))))]_vars

\* an add was rejected for an empty field
C5_Witness ==
    /\ last.op = "new_program"
    /\ last.outcome = "invalid"
    /\ last.box = InvalidItemBox

\* the position in the group's items of the item a list entry refers to
PositionOf(sub, entry) ==
    LET items == groupObjs[subWindows[sub].group].items
    IN CHOOSE k \in DOMAIN items : items[k].id = subWindows[sub].listItems[entry]

\* C6: a confirmed delete removes exactly the addressed item instance: the
\* items before it stay, the items after it move up by one, in their order,
\* value-equal items included; nothing else changes.
C6_IdentityDeletion ==
    [][last'.op = "delete_program" =>
       \A sub \in OpenSubWindows : \A entry \in Entries(sub) :
          DeleteProgram(sub, entry, TRUE) =>
              LET gid == subWindows[sub].group
                  before == groupObjs[gid].items
                  after == groupObjs'[gid].items
                  pos == PositionOf(sub, entry)
              IN /\ before[pos].id = subWindows[sub].listItems[entry]
                 /\ Len(after) = Len(before) - 1
                 /\ \A k \in DOMAIN after :
                        after[k] = IF k < pos THEN before[k] ELSE before[k + 1]
                 /\ OtherGroupsUnchanged(gid)
                 /\ RestUnchanged]_vars

\* one of the two equal items of the group loaded from the file was deleted
\* and the other one is still there
C6_Witness ==
    /\ last.op = "delete_program"
    /\ last.outcome = "deleted"
    /\ nextItem = 2
    /\ \E g \in DOMAIN groupObjs :
          /\ groupObjs[g].title = Str(G)
          /\ Len(groupObjs[g].items) = 1
          /\ ItemValue(groupObjs[g].items[1]) =
                 ProgramItem(Str(A), Str(X), EmptyStr, EmptyStr)

\* C7: an accepted edit is rejected exactly when an add of the same fields
\* is; rejected, it changes no field of the item; in every case the group
\* keeps its items' identities and positions, only the addressed item's
\* fields change (to the stripped texts), and nothing else changes.
C7_EditInPlace ==
    [][last'.op = "edit_program" =>
       \A sub \in OpenSubWindows : \A entry \in Entries(sub),
             input \in DialogInputs :
          EditProgram(sub, entry, TRUE, input) =>
              LET gid == subWindows[sub].group
                  before == groupObjs[gid].items
                  after == groupObjs'[gid].items
                  pos == PositionOf(sub, entry)
                  rejected == Blank(input.title) \/ Blank(input.command)
              IN /\ Len(after) = Len(before)
                 /\ \A k \in DOMAIN before : after[k].id = before[k].id
                 /\ \A k \in DOMAIN before : k # pos => after[k] = before[k]
                 /\ OtherGroupsUnchanged(gid)
                 /\ RestUnchanged
                 /\ (input.title = <<>> \/ input.command = <<>>) => rejected
                 /\ rejected => /\ after[pos] = before[pos]
                                /\ last'.box = InvalidItemBox
                 /\ ~rejected =>
                        /\ ItemValue(after[pos]) =
                               ProgramItem(Str(Strip(input.title)),
                                           Str(Strip(input.command)),
                                           Str(Strip(input.working_dir)),
                                           Str(Strip(input.icon_path)))
                        /\ last'.box = NoBox]_vars

\* an item was edited and now has the dialog's fields
C7_Witness ==
    /\ last.op = "edit_program"
    /\ last.outcome = "edited"
    /\ \E g \in DOMAIN groupObjs : \E k \in DOMAIN groupObjs[g].items :
          ItemValue(groupObjs[g].items[k]) =
              ProgramItem(Str(A), Str(X), Str(W), EmptyStr)

(***************************************************************************)
(* Groups.                                                                 *)
(***************************************************************************)
InCatalog(gid) == \E k \in DOMAIN groups : groups[k] = gid

\* the references of grps without the one at position pos
WithoutPosition(grps, pos) ==
    [k \in 1..Len(grps) - 1 |-> IF k < pos THEN grps[k] ELSE grps[k + 1]]

\* a confirmed delete of a group of the catalog takes exactly that group
\* instance, and with it its items, out of the catalog
RemovesGroup(gid) ==
    /\ \E pos \in DOMAIN groups :
          /\ groups[pos] = gid
          /\ groups' = WithoutPosition(groups, pos)
    /\ ~InCatalog(gid)'
    /\ CatalogValue'.groups =
           [k \in DOMAIN groups' |-> GroupValue(groupObjs[groups'[k]])]
    /\ UNCHANGED <<platform, mdiState, file, pc, theme, layout_state, groupObjs,
                   nextItem>>

\* the handler tells the user of a failure: the program's means for that are
\* its warning and error boxes
ReportsFailure == last'.box.kind \in {"warning", "critical"}

\* C8 as stated: delete_group removes exactly the addressed group with its
\* items, and on a group that is no longer in the catalog it reports a
\* failure (NotFound) and leaves the catalog unchanged.
C8_DeleteGroupAsStated ==
    [][last'.op = "delete_group" =>
       \A sub \in OpenSubWindows : \A again \in {0, sub} :
          DeleteCurrentGroup(sub, TRUE, again) =>
              IF InCatalog(subWindows[sub].group)
              THEN RemovesGroup(subWindows[sub].group)
              ELSE ReportsFailure /\ CatalogValue' = CatalogValue]_vars

\* C8, amended: delete_group removes exactly the addressed group with its
\* items; on a group that is no longer in the catalog it leaves the catalog
\* unchanged and reports nothing: no failure is shown, and the handler goes
\* on to close the subwindow as it does after a removal.
C8_DeleteGroup ==
    [][last'.op = "delete_group" =>
       \A sub \in OpenSubWindows : \A again \in {0, sub} :
          DeleteCurrentGroup(sub, TRUE, again) =>
              /\ IF InCatalog(subWindows[sub].group)
                 THEN RemovesGroup(subWindows[sub].group)
                 ELSE /\ ~ReportsFailure
                      /\ CatalogValue' = CatalogValue
                      /\ groups' = groups
              /\ last'.box = NoBox
              /\ again # 0 => subWindows'[again].closed]_vars

\* a confirmed delete was handled for a group that a delete before it had
\* taken out of the catalog
C8_Witness ==
    /\ last.op = "delete_group"
    /\ last.outcome = "nothing_removed"
    /\ \E sub \in DOMAIN subWindows : ~InCatalog(subWindows[sub].group)

(***************************************************************************)
(* Launching.                                                              *)
(***************************************************************************)
\* C9: when Popen fails for an item with a non-empty command, launch shows
\* the failure with the item's title, its command and the error's text; the
\* program keeps running and the catalog is as it was.  No launch ends the
\* program.
C9_LaunchFailure ==
    [][last'.op = "launch" =>
       \A sub \in OpenSubWindows : \A entry \in Entries(sub),
             popen \in PopenResults :
          Launch(sub, entry, popen) =>
              /\ pc' = "running"
              /\ (~popen.ok /\ ~Falsy(ItemOf(sub, entry).command)) =>
                     /\ last'.outcome = "failed"
                     /\ last'.box.kind = "critical"
                     /\ last'.box.title = ItemOf(sub, entry).title
                     /\ last'.box.command = ItemOf(sub, entry).command
                     /\ last'.box.error = popen.error
                     /\ CatalogValue' = CatalogValue
                     /\ UNCHANGED <<groups, groupObjs, file>>]_vars

\* a launch has failed and the program runs
C9_Witness ==
    /\ last.op = "launch"
    /\ last.outcome = "failed"
    /\ last.popen.called
    /\ pc = "running"

\* C10: launch on an item whose command is empty is skipped without a Popen
\* call, whatever its other fields; Popen is called only by a launch of an
\* item with a non-empty command.
C10_LaunchSkip ==
    [][/\ last'.popen.called => last'.op = "launch"
       /\ last'.op = "launch" =>
            \A sub \in OpenSubWindows : \A entry \in Entries(sub),
                  popen \in PopenResults :
               Launch(sub, entry, popen) =>
                   /\ ItemOf(sub, entry).command = EmptyStr =>
                          /\ last'.outcome = "skipped"
                          /\ ~last'.popen.called
                          /\ last'.box = NoBox
                   /\ last'.popen.called =>
                          /\ ItemOf(sub, entry).command # EmptyStr
                          /\ last'.popen.args = ItemOf(sub, entry).command]_vars

\* an item without a command was launched and skipped
C10_Witness ==
    /\ last.op = "launch"
    /\ last.outcome = "skipped"
    /\ ~last.popen.called
    /\ \E g \in DOMAIN groupObjs : \E k \in DOMAIN groupObjs[g].items :
          groupObjs[g].items[k].command = EmptyStr

(***************************************************************************)
(* Theme.  The two View > Colors actions pass "system" and "classic";      *)
(* what _set_theme does with other arguments is seen by calling it with    *)
(* them.                                                                   *)
(***************************************************************************)
DARK == <<"d", "a", "r", "k">>
CLASSIC_UPPER == <<"C", "L", "A", "S", "S", "I", "C">>
SYSTEM_CAPITAL == <<"S", "y", "s", "t", "e", "m">>

\* arguments of _set_theme(theme: str)
ThemeArguments == {<<>>, SYSTEM, CLASSIC, DARK, CLASSIC_UPPER, SYSTEM_CAPITAL}

\* the program, and _set_theme called with any of these arguments
ThemeNext ==
    \/ Next
    \/ \E th \in ThemeArguments, layout \in LayoutTexts : SetTheme(th, layout)

ThemeSpec == Init /\ [][ThemeNext]_vars

TwoThemes == {Str(SYSTEM), Str(CLASSIC)}

\* the theme in memory is one of the two, and so is the one in a file
\* that save has just written
ThemeInRange ==
    /\ theme \in TwoThemes
    /\ Saved => /\ file.exists
                /\ file.text.syntax = "json"
                /\ "theme" \in DOMAIN file.text.value.v
                /\ file.text.value.v.theme \in TwoThemes

\* load of a file that parses takes the stored theme when it is one of the
\* two and "system" when it is absent or anything else
LoadCoercesTheme ==
    (AppModelInit /\ last'.outcome = "parsed") =>
        LET data == file.text.value
        IN IF "theme" \in DOMAIN data.v /\ data.v.theme \in TwoThemes
           THEN theme' = data.v.theme
           ELSE theme' = Str(SYSTEM)

Increasing(ids) == \A j, k \in DOMAIN ids : j < k => ids[j] < ids[k]

\* the place of id in a sequence of ids that holds it
PlaceOf(ids, id) == CHOOSE k \in DOMAIN ids : ids[k] = id

\* two entries that are in both sequences stand the same way round in both
SameRelativeOrder(before, after) ==
    \A a, b \in {before[k] : k \in DOMAIN before}
                  \cap {after[k] : k \in DOMAIN after} :
        (PlaceOf(before, a) < PlaceOf(before, b))
            <=> (PlaceOf(after, a) < PlaceOf(after, b))

\* the surviving groups, and the surviving items of each, in the order of
\* their creation
InsertionOrder ==
    /\ Increasing(groups)
    /\ \A k \in DOMAIN groups : Increasing(ItemIds(GroupList[k].items))

\* C12: after every step of the program, whatever add_group, rename_group,
\* delete_group, add_item, edit_item and delete_item came before, the
\* surviving groups stand in the order they were added and the surviving
\* items of each group in the order they were added to it; and the step
\* did not change the relative order of two groups, or of two items of a
\* group, that exist before and after it.
C12_InsertionOrder ==
    [][/\ InsertionOrder'
       /\ SameRelativeOrder(groups, groups')
       /\ \A g \in DOMAIN groupObjs :
              SameRelativeOrder(ItemIds(groupObjs[g].items),
                                ItemIds(groupObjs'[g].items))]_vars

\* the first of three items was deleted and a group was added after that:
\* the two later items and the two groups stand in the order of their adding
C12_Witness ==
    /\ last.op = "new_group"
    /\ last.outcome = "added"
    /\ groups = <<1, 2>>
    /\ ItemIds(GroupList[1].items) = <<2, 3>>

(***************************************************************************)
(* Shutdown.                                                               *)
(***************************************************************************)
\* C13: once the window has handled its close request, whatever catalog
\* operations came before and whether or not a save was among them, the
\* file on disk loads, and loads to exactly the groups and the theme the
\* catalog has in memory; also when the session started from the fallback
\* for an unreadable file, which is overwritten then.
C13_ShutdownPersists ==
    last.op = "close" =>
        /\ Reloaded.outcome = "parsed"
        /\ Reloaded.catalog.groups = CatalogValue.groups
        /\ Reloaded.catalog.theme = theme

====
